---- MODULE Spec2Model ----
(***************************************************************************)
(* Matching and confidence-fusion engine of the food image matcher         *)
(* (app/core/image_analyzer.py) and the batch loop of run.py.              *)
(*                                                                         *)
(* A text is a sequence of one-character strings.  Numbers that Python     *)
(* keeps as floats are kept as exact fractions <<n, d>> with d > 0.        *)
(* An optional value is <<>> (None) or <<v>>.                              *)
(***************************************************************************)
EXTENDS Integers, Sequences, FiniteSets, TLC

VARIABLES
    pc,            \* position of the analysis of one image, or of main
    services,      \* the services the analyzer was given: "both", "openai" or "vision"
    descriptions,  \* ImageAnalyzer.descriptions, the catalog
    analysis,      \* the analysis dict handed to find_best_match
    best,          \* find_best_match: best_match and best_score after the loops
    result,        \* the dict find_best_match returns
    image_paths,   \* main: the (sampled) list of images
    idx,           \* main: number of images the batch loop has consumed
    results,       \* main: the results list
    failed,        \* positions of image_paths at which an upstream call raised
    from_openai,   \* analyze_image: openai_analysis, what the OpenAI service returned
    from_vision,   \* analyze_image: vision_analysis, what the Vision service returned
    calls,         \* the calls made so far to services and subprocesses, in order
    args           \* main: the parsed command line

vars == <<pc, services, descriptions, analysis, best, result, image_paths, idx, results,
          failed, from_openai, from_vision, calls, args>>

\* What the steps of one specification leave alone of the variables of the other specifications
others == <<from_openai, from_vision, calls, args>>

None == <<>>
Some(v) == <<v>>

(***************************************************************************)
(* Characters and the str methods the code uses                            *)
(***************************************************************************)
\* The letters: the ASCII alphabet and one accented letter standing for the
\* letters outside ASCII
UpperLetters == <<"A","B","C","D","E","F","G","H","I","J","K","L","M",
                  "N","O","P","Q","R","S","T","U","V","W","X","Y","Z","É">>
LowerLetters == <<"a","b","c","d","e","f","g","h","i","j","k","l","m",
                  "n","o","p","q","r","s","t","u","v","w","x","y","z","é">>
AsciiLetterCount == 26
DigitChars == <<"0","1","2","3","4","5","6","7","8","9">>

UpperSet == {UpperLetters[i] : i \in DOMAIN UpperLetters}
LowerSet == {LowerLetters[i] : i \in DOMAIN LowerLetters}
DigitSet == {DigitChars[i] : i \in DOMAIN DigitChars}

\* \w under re.ASCII
AsciiWordSet ==
    {UpperLetters[i] : i \in 1..AsciiLetterCount}
    \cup {LowerLetters[i] : i \in 1..AsciiLetterCount}
    \cup DigitSet \cup {"_"}

IsSpace(c) == c \in {" ", "\n", "\t", "\r"}
IsAlphaChar(c) == c \in UpperSet \/ c \in LowerSet
IsDigit(c) == c \in DigitSet
IsWordChar(c) == IsAlphaChar(c) \/ IsDigit(c) \/ c = "_"

LowerChar(c) ==
    IF c \in UpperSet
    THEN LowerLetters[CHOOSE i \in DOMAIN UpperLetters : UpperLetters[i] = c]
    ELSE c

UpperChar(c) ==
    IF c \in LowerSet
    THEN UpperLetters[CHOOSE i \in DOMAIN LowerLetters : LowerLetters[i] = c]
    ELSE c

Lower(s) == [i \in 1..Len(s) |-> LowerChar(s[i])]
Upper(s) == [i \in 1..Len(s) |-> UpperChar(s[i])]

DigitValue(c) == (CHOOSE i \in DOMAIN DigitChars : DigitChars[i] = c) - 1

\* m occurs in s at index i
MatchesAt(s, i, m) ==
    /\ i >= 1
    /\ i + Len(m) - 1 <= Len(s)
    /\ \A k \in 1..Len(m) : s[i + k - 1] = m[k]

\* Python's "m in s"
Contains(s, m) == \E i \in 1..(Len(s) - Len(m) + 1) : MatchesAt(s, i, m)

StartsWith(s, m) == MatchesAt(s, 1, m)

\* str.strip()
Strip(s) ==
    LET keep == {i \in 1..Len(s) : ~IsSpace(s[i])}
    IN  IF keep = {} THEN <<>>
        ELSE LET lo == CHOOSE i \in keep : \A j \in keep : i <= j
                 hi == CHOOSE i \in keep : \A j \in keep : j <= i
             IN  SubSeq(s, lo, hi)

\* end of the run of characters of class in(_) that starts at index i
\* (the index after its last character)
RECURSIVE RunEnd(_, _, _)
RunEnd(s, i, cls) ==
    IF i <= Len(s) /\ s[i] \in cls THEN RunEnd(s, i + 1, cls) ELSE i

\* str.split(): the maximal runs of non-whitespace characters
RECURSIVE SplitFrom(_, _)
SplitFrom(s, i) ==
    IF i > Len(s) THEN <<>>
    ELSE IF IsSpace(s[i]) THEN SplitFrom(s, i + 1)
    ELSE LET ends == {j \in i..Len(s) : IsSpace(s[j])}
             e == IF ends = {} THEN Len(s) + 1
                  ELSE CHOOSE j \in ends : \A k \in ends : j <= k
         IN  <<SubSeq(s, i, e - 1)>> \o SplitFrom(s, e)

Split(s) == SplitFrom(s, 1)

\* str.isalpha()
IsAlpha(w) == Len(w) > 0 /\ \A i \in 1..Len(w) : IsAlphaChar(w[i])

\* ' '.join(words)
RECURSIVE Join(_)
Join(words) ==
    IF words = <<>> THEN <<>>
    ELSE IF Len(words) = 1 THEN words[1]
    ELSE words[1] \o <<" ">> \o Join(Tail(words))

(***************************************************************************)
(* Fractions                                                               *)
(***************************************************************************)
Frac(n, d) == <<n, d>>
FLe(a, b) == a[1] * b[2] <= b[1] * a[2]
FLt(a, b) == a[1] * b[2] < b[1] * a[2]
FEq(a, b) == a[1] * b[2] = b[1] * a[2]
FAdd(a, b) == <<a[1] * b[2] + b[1] * a[2], a[2] * b[2]>>
FDiv10(a) == <<a[1], a[2] * 10>>
FMin(a, b) == IF FLt(b, a) THEN b ELSE a
FMax(a, b) == IF FLt(a, b) THEN b ELSE a
FZero == Frac(0, 1)
FOne == Frac(1, 1)

(***************************************************************************)
(* Signal extraction (find_best_match, the three regular expressions)      *)
(***************************************************************************)
SpaceSet == {" ", "\n", "\t", "\r"}
WordSet == UpperSet \cup LowerSet \cup DigitSet \cup {"_"}
NumberSet == DigitSet \cup {"."}

TextDetectedMarker == <<"t","e","x","t"," ","d","e","t","e","c","t","e","d",":">>
ConfidenceWord == <<"c","o","n","f","i","d","e","n","c","e">>
ScoreWord == <<"s","c","o","r","e">>
ConfidenceScoreMarker == ConfidenceWord \o <<" ">> \o ScoreWord \o <<":">>
UnmatchedWord == <<"u","n","m","a","t","c","h","e","d">>

Occurrences(s, m) == {i \in 1..(Len(s) - Len(m) + 1) : MatchesAt(s, i, m)}
Least(S) == CHOOSE i \in S : \A j \in S : i <= j
Greatest(S) == CHOOSE i \in S : \A j \in S : j <= i

\* index of the first "\n" at or after i, Len(s) + 1 when there is none
LineEnd(s, i) ==
    LET nl == {j \in i..Len(s) : s[j] = "\n"}
    IN  IF nl = {} THEN Len(s) + 1 ELSE Least(nl)

\* re.search(r'text detected:\s*(.*?)(?:\n|$)', text): None, or Some(group(1))
TextMatch(text) ==
    LET occ == Occurrences(text, TextDetectedMarker)
    IN  IF occ = {} THEN None
        ELSE LET p == RunEnd(text, Least(occ) + Len(TextDetectedMarker), SpaceSet)
             IN  Some(SubSeq(text, p, LineEnd(text, p) - 1))

\* detected_text of find_best_match
DetectedText(text) ==
    IF TextMatch(text) = None THEN <<>>
    ELSE Lower(Strip(TextMatch(text)[1]))

\* Where r'confidence[\s:]*(score)?[\s:]*([\d\.]+)(?:\/10)?' matches with
\* "confidence" at index i: the index at which group(2) starts, 0 if no match
ConfidenceGroupStart(text, i) ==
    LET a == RunEnd(text, i + Len(ConfidenceWord), SpaceSet \cup {":"})
        b == IF MatchesAt(text, a, ScoreWord) THEN a + Len(ScoreWord) ELSE a
        c == RunEnd(text, b, SpaceSet \cup {":"})
    IN  IF c <= Len(text) /\ text[c] \in NumberSet THEN c ELSE 0

\* re.search of the confidence pattern: None, or Some(group(2))
ConfidenceMatch(text) ==
    LET occ == {i \in Occurrences(text, ConfidenceWord) :
                    ConfidenceGroupStart(text, i) # 0}
    IN  IF occ = {} THEN None
        ELSE LET c == ConfidenceGroupStart(text, Least(occ))
             IN  Some(SubSeq(text, c, RunEnd(text, c, NumberSet) - 1))

RECURSIVE DigitsValue(_, _)
DigitsValue(ds, acc) ==
    IF ds = <<>> THEN acc
    ELSE DigitsValue(Tail(ds), acc * 10 + DigitValue(Head(ds)))

RECURSIVE Pow10(_)
Pow10(k) == IF k = 0 THEN 1 ELSE 10 * Pow10(k - 1)

\* float(g) for g a run of digits and dots: None on ValueError
ParseFloat(g) ==
    LET dots == {i \in 1..Len(g) : g[i] = "."}
        digits == SelectSeq(g, IsDigit)
    IN  IF Cardinality(dots) > 1 \/ digits = <<>> THEN None
        ELSE LET after == IF dots = {} THEN 0 ELSE Len(g) - Least(dots)
             IN  Some(Frac(DigitsValue(digits, 0), Pow10(after)))

\* confidence_score of find_best_match
ConfidenceScore(text) ==
    LET m == ConfidenceMatch(text)
    IN  IF m = None THEN FZero
        ELSE LET f == ParseFloat(m[1])
             IN  IF f = None THEN FZero
                 ELSE IF FLt(Frac(10, 1), f[1]) THEN FDiv10(f[1])
                 ELSE f[1]

\* Where r'unmatched[\s\-]*([\w\s]+)' matches with "unmatched" at index i:
\* group(1) as <<first, last>> indices, <<0, 0>> if no match
UnmatchedGroupAt(text, i) ==
    LET r == i + Len(UnmatchedWord)
        a == RunEnd(text, r, SpaceSet \cup {"-"})
        sp == {j \in r..(a - 1) : IsSpace(text[j])}
    IN  IF a <= Len(text) /\ text[a] \in WordSet
        THEN <<a, RunEnd(text, a, WordSet \cup SpaceSet) - 1>>
        ELSE IF sp # {} THEN <<Greatest(sp), Greatest(sp)>>
        ELSE <<0, 0>>

\* re.search(unmatched_pattern, text): None, or Some(group(1))
UnmatchedMatch(text) ==
    LET occ == {i \in Occurrences(text, UnmatchedWord) :
                    UnmatchedGroupAt(text, i) # <<0, 0>>}
    IN  IF occ = {} THEN None
        ELSE LET g == UnmatchedGroupAt(text, Least(occ))
             IN  Some(SubSeq(text, g[1], g[2]))

(***************************************************************************)
(* Matching (find_best_match, Phase A and Phase B)                         *)
(***************************************************************************)
TextMatchScore == Frac(9, 10)
LowScore == Frac(3, 10)
UnmatchedCap == Frac(9, 10)
MaxFoodWords == 4

\* Mutant: only "detected text in description" is tested
RECURSIVE PhaseA_OneWay(_, _, _)
PhaseA_OneWay(detected_text, descs, i) ==
    IF i > Len(descs) THEN 0
    ELSE IF Contains(Lower(descs[i]), detected_text) THEN i
    ELSE PhaseA_OneWay(detected_text, descs, i + 1)

\* The loop over self.descriptions that looks for the detected text: the
\* index of the entry at which it breaks, 0 if it runs to the end
RECURSIVE PhaseA(_, _, _)
PhaseA(detected_text, descs, i) ==
    IF i > Len(descs) THEN 0
    ELSE LET desc_normalized == Lower(descs[i])
         IN  IF \/ Contains(desc_normalized, detected_text)
                \/ Contains(detected_text, desc_normalized)
             THEN i
             ELSE PhaseA(detected_text, descs, i + 1)

\* Mutant: short words are counted too
BaseScore_AnyLength(desc_words, text) ==
    Cardinality({k \in 1..Len(desc_words) : Contains(text, desc_words[k])})

\* base_score of one description: its words longer than 2 that occur in text
BaseScore(desc_words, text) ==
    Cardinality({k \in 1..Len(desc_words) :
                    Len(desc_words[k]) > 2 /\ Contains(text, desc_words[k])})

\* Mutant: a tie replaces the best so far
Beats_OrTies(normalized_score, best_score) == FLe(best_score, normalized_score)

\* normalized_score > best_score
Beats(normalized_score, best_score) == FLt(best_score, normalized_score)

\* The content-matching loop from entry i on, with the best so far:
\* [match |-> best_match, score |-> best_score]
RECURSIVE PhaseB(_, _, _, _)
PhaseB(text, descs, i, so_far) ==
    IF i > Len(descs) THEN so_far
    ELSE LET desc_words == Split(Lower(descs[i]))
             normalized_score == Frac(BaseScore(desc_words, text), Len(desc_words))
         IN  IF Len(desc_words) > 0 /\ Beats(normalized_score, so_far.score)
             THEN PhaseB(text, descs, i + 1,
                         [match |-> Some(descs[i]), score |-> normalized_score])
             ELSE PhaseB(text, descs, i + 1, so_far)

\* best_match and best_score after both loops
BestMatch(text, detected_text, descs) ==
    LET a == IF detected_text # <<>> THEN PhaseA(detected_text, descs, 1) ELSE 0
    IN  IF a # 0 THEN [match |-> Some(descs[a]), score |-> TextMatchScore]
        ELSE PhaseB(text, descs, 1, [match |-> None, score |-> FZero])

(***************************************************************************)
(* Unmatched-label fallback                                                *)
(***************************************************************************)
\* re.sub(marker + r'.*?\n', '', s) from index i on
RECURSIVE RemoveToNewline(_, _, _)
RemoveToNewline(s, i, marker) ==
    IF i > Len(s) THEN <<>>
    ELSE IF MatchesAt(s, i, marker) /\ LineEnd(s, i + Len(marker)) <= Len(s)
    THEN RemoveToNewline(s, LineEnd(s, i + Len(marker)) + 1, marker)
    ELSE <<s[i]>> \o RemoveToNewline(s, i + 1, marker)

UnmatchedPrefix == <<"U","N","M","A","T","C","H","E","D">>

FoodWord(w) == Len(w) > 2 /\ IsAlpha(w)

\* food_words of the fallback
FoodWords(text) ==
    LET food_description ==
            RemoveToNewline(RemoveToNewline(text, 1, TextDetectedMarker),
                            1, ConfidenceScoreMarker)
        kept == SelectSeq(Split(food_description), FoodWord)
    IN  [k \in 1..Len(kept) |-> Upper(kept[k])]

FirstN(q, n) == SubSeq(q, 1, IF Len(q) < n THEN Len(q) ELSE n)

\* f"UNMATCHED {abbrev_desc}"
FallbackMatch(text) ==
    UnmatchedPrefix \o <<" ">> \o Join(FirstN(FoodWords(text), MaxFoodWords))

(***************************************************************************)
(* find_best_match                                                         *)
(***************************************************************************)
ReasonExplicit == "AI explicitly marked as unmatched"
ReasonNoMatch == "No good match found"

\* analysis.get("confidence_boost", 0)
BoostOf(an) == IF an.confidence_boost = None THEN FZero ELSE an.confidence_boost[1]

\* Mutant: the cap of the unmatched branch is left out
CapUnmatched_Missing(final_confidence) == final_confidence

\* min(final_confidence, 0.9)
CapUnmatched(final_confidence) == FMin(final_confidence, UnmatchedCap)

\* min(final_confidence, 1.0)
CapOne(final_confidence) == FMin(final_confidence, FOne)

\* confidence_score > 0: the reported confidence is used
\* Mutant: a confidence_score of 0 counts as reported
HasReported_OrZero(confidence_score) == FLe(FZero, confidence_score)

HasReported(confidence_score) == FLt(FZero, confidence_score)

\* The result dict of the branch taken when unmatched_match is set
ExplicitResult(unmatched_match, confidence_score, b, confidence_boost) ==
    LET unmatched_desc == Upper(Strip(unmatched_match[1]))
        base_confidence ==
            IF HasReported(confidence_score) THEN FDiv10(confidence_score)
            ELSE FMax(LowScore, b.score)
        final_confidence == CapUnmatched(FAdd(base_confidence, confidence_boost))
    IN  [match |-> Some(UnmatchedPrefix \o <<" ">> \o unmatched_desc),
         score |-> b.score,
         confidence |-> final_confidence,
         original_confidence |-> base_confidence,
         synergy_boost |-> confidence_boost,
         is_explicit_unmatched |-> Some(TRUE),
         unmatched_reason |-> Some(ReasonExplicit)]

\* Mutant: the fallback ignores the score threshold
NeedsFallback_NoThreshold(b) == b.match = None

\* best_match is None or best_score < 0.3
NeedsFallback(b) == b.match = None \/ FLt(b.score, LowScore)

\* The result dict of the else branch, the fallback included
RegularResult(text, confidence_score, b, confidence_boost) ==
    LET final_confidence ==
            IF HasReported(confidence_score)
            THEN CapOne(FAdd(FDiv10(confidence_score), confidence_boost))
            ELSE CapOne(FAdd(b.score, confidence_boost))
        original ==
            IF HasReported(confidence_score) THEN FDiv10(confidence_score)
            ELSE b.score
        truthy == b.match # None /\ b.match[1] # <<>>
    IN  [match |-> IF NeedsFallback(b) THEN Some(FallbackMatch(text))
                   ELSE IF truthy THEN b.match ELSE None,
         score |-> b.score,
         confidence |-> final_confidence,
         original_confidence |-> original,
         synergy_boost |-> confidence_boost,
         is_explicit_unmatched |-> None,
         unmatched_reason |-> IF NeedsFallback(b) THEN Some(ReasonNoMatch)
                              ELSE None]

\* best_match and best_score of find_best_match for an analysis
BestOf(an, descs) ==
    LET text == Lower(an.description)
    IN  BestMatch(text, DetectedText(text), descs)

\* Mutant: a catalog match found by the loops wins over the unmatched marker
FindBestMatch_MatchFirst(an, descs) ==
    LET text == Lower(an.description)
        confidence_score == ConfidenceScore(text)
        unmatched_match == UnmatchedMatch(text)
        b == BestOf(an, descs)
        confidence_boost == BoostOf(an)
    IN  IF unmatched_match # None /\ b.match = None
        THEN ExplicitResult(unmatched_match, confidence_score, b, confidence_boost)
        ELSE RegularResult(text, confidence_score, b, confidence_boost)

FindBestMatch(an, descs) ==
    LET text == Lower(an.description)
        confidence_score == ConfidenceScore(text)
        unmatched_match == UnmatchedMatch(text)
        b == BestOf(an, descs)
        confidence_boost == BoostOf(an)
    IN  IF unmatched_match # None
        THEN ExplicitResult(unmatched_match, confidence_score, b, confidence_boost)
        ELSE RegularResult(text, confidence_score, b, confidence_boost)

(***************************************************************************)
(* sanitize_filename and _create_match_filename                            *)
(***************************************************************************)
\* re.sub(r'[^\w\-]', '_', name, flags=re.ASCII)
\* Mutant: a run of invalid characters becomes one underscore
SanitizeFilename_Collapsing(name) ==
    LET valid(c) == c \in AsciiWordSet \/ c = "-"
        at == SelectSeq([i \in 1..Len(name) |-> i],
                        LAMBDA i : valid(name[i]) \/ i = 1 \/ valid(name[i - 1]))
    IN  [k \in 1..Len(at) |-> IF valid(name[at[k]]) THEN name[at[k]] ELSE "_"]

\* Mutant: the substitution without the ASCII flag (Unicode word characters kept)
SanitizeFilename_Unicode(name) ==
    [i \in 1..Len(name) |->
        IF name[i] \in WordSet \/ name[i] = "-" THEN name[i] ELSE "_"]

SanitizeFilename(name) ==
    [i \in 1..Len(name) |->
        IF name[i] \in AsciiWordSet \/ name[i] = "-" THEN name[i] ELSE "_"]

\* re.sub(r'\s+', '_', s) from index i on
RECURSIVE SpacesToUnderscore(_, _)
SpacesToUnderscore(s, i) ==
    IF i > Len(s) THEN <<>>
    ELSE IF IsSpace(s[i])
    THEN <<"_">> \o SpacesToUnderscore(s, RunEnd(s, i, SpaceSet))
    ELSE <<s[i]>> \o SpacesToUnderscore(s, i + 1)

\* Where r'CONFIDENCE[^\w]*SCORE' (IGNORECASE) matches at index i of s: the
\* index after the match, 0 if it does not match
ConfidenceScoreEnd(s, i) ==
    LET low == Lower(s)
        a == RunEnd(s, i + Len(ConfidenceWord), {s[k] : k \in 1..Len(s)} \ WordSet)
    IN  IF MatchesAt(low, i, ConfidenceWord) /\ MatchesAt(low, a, ScoreWord)
        THEN a + Len(ScoreWord)
        ELSE 0

\* re.sub(r'CONFIDENCE[^\w]*SCORE.*', '', s, flags=re.IGNORECASE) from index i on
RECURSIVE RemoveConfidenceScore(_, _)
RemoveConfidenceScore(s, i) ==
    IF i > Len(s) THEN <<>>
    ELSE IF ConfidenceScoreEnd(s, i) # 0
    THEN RemoveConfidenceScore(s, LineEnd(s, ConfidenceScoreEnd(s, i)))
    ELSE <<s[i]>> \o RemoveConfidenceScore(s, i + 1)

\* os.path.splitext(name)[1]
SplitExt(name) ==
    LET seps == {i \in 1..Len(name) : name[i] = "/"}
        base == IF seps = {} THEN 1 ELSE Greatest(seps) + 1
        dots == {i \in base..Len(name) : name[i] = "."}
    IN  IF dots = {} THEN <<>>
        ELSE IF \A j \in base..(Greatest(dots) - 1) : name[j] = "." THEN <<>>
        ELSE SubSeq(name, Greatest(dots), Len(name))

\* str(n) for n >= 0
RECURSIVE IntToStr(_)
IntToStr(n) ==
    IF n < 10 THEN <<DigitChars[n + 1]>>
    ELSE IntToStr(n \div 10) \o <<DigitChars[(n % 10) + 1]>>

\* The hundredths k for which the binary64 product (k/100) * 100 falls just
\* below k, the confidence being a reported value (at most one decimal)
\* divided by 10
FloatFloorBelow == {7, 14, 28, 29, 33, 56, 58, 66, 87, 91}

\* Mutant: the product is rounded to the nearest integer
ConfPct_Rounded(confidence) == (confidence[1] * 200 + confidence[2]) \div (2 * confidence[2])

\* int(confidence * 100): the floor of the binary64 product
ConfPct(confidence) ==
    LET exact == (confidence[1] * 100) \div confidence[2]
    IN  IF exact * confidence[2] = confidence[1] * 100 /\ exact \in FloatFloorBelow
        THEN exact - 1
        ELSE exact

ConfTag == <<"_","c","o","n","f">>
DefaultFileName == <<"u","n","k","n","o","w","n",".","j","p","e","g">>

\* _create_match_filename, for the file name, match and confidence of an analysis
\* Mutant: the stem of the original file name is appended to the name
CreateMatchFilename_WithStem(file_name, match, confidence) ==
    LET orig_filename == IF file_name = None THEN DefaultFileName ELSE file_name[1]
        ext == SplitExt(orig_filename)
        stem == SubSeq(orig_filename, 1, Len(orig_filename) - Len(ext))
    IN  IF match = None \/ match[1] = <<>> THEN orig_filename
        ELSE SpacesToUnderscore(SanitizeFilename(match[1]), 1) \o ConfTag
                 \o IntToStr(ConfPct(confidence)) \o <<"_">> \o SanitizeFilename(stem) \o ext

CreateMatchFilename(file_name, match, confidence) ==
    LET orig_filename == IF file_name = None THEN DefaultFileName ELSE file_name[1]
        ext == SplitExt(orig_filename)
        conf_pct == IntToStr(ConfPct(confidence))
    IN  IF match = None \/ match[1] = <<>> THEN orig_filename
        ELSE IF StartsWith(match[1], UnmatchedPrefix)
        THEN LET rest == Strip(SubSeq(match[1], Len(UnmatchedPrefix) + 1, Len(match[1])))
                 food_description ==
                     SanitizeFilename(
                         SpacesToUnderscore(Strip(RemoveConfidenceScore(rest, 1)), 1))
             IN  UnmatchedPrefix \o <<"_">> \o food_description \o ConfTag
                     \o conf_pct \o ext
        ELSE LET clean_description == SpacesToUnderscore(SanitizeFilename(match[1]), 1)
             IN  clean_description \o ConfTag \o conf_pct \o ext

(***************************************************************************)
(* combine_analysis_results                                                *)
(***************************************************************************)
TextThreshold == Frac(5, 10)
TagThreshold == Frac(7, 10)

FoodVocabulary ==
    { <<"f","o","o","d">>,
      <<"s","a","n","d","w","i","c","h">>,
      <<"b","r","e","a","d">>,
      <<"b","u","r","g","e","r">>,
      <<"m","e","a","l">>,
      <<"l","u","n","c","h">>,
      <<"d","i","n","n","e","r">>,
      <<"b","r","e","a","k","f","a","s","t">>,
      <<"p","l","a","t","e">>,
      <<"m","e","a","t">>,
      <<"c","h","e","e","s","e">>,
      <<"v","e","g","e","t","a","b","l","e">>,
      <<"d","e","s","s","e","r","t">>,
      <<"s","a","l","a","d">>,
      <<"w","r","a","p">> }

DetectedMarker == <<"T","E","X","T"," ","D","E","T","E","C","T","E","D",":">>
DetectedHeader == <<"T","E","X","T"," ","D","E","T","E","C","T","E","D",":"," ">>
TextSeparator == <<" ","|"," ">>
TagLinePrefix == <<"\n","V","i","s","i","o","n"," ","A","P","I"," ","d","e","t","e","c","t","e","d",":"," ">>

NoteText == "Added Vision API text detection"

\* " | ".join(items)
RECURSIVE JoinWith(_, _)
JoinWith(items, sep) ==
    IF items = <<>> THEN <<>>
    ELSE IF Len(items) = 1 THEN items[1]
    ELSE items[1] \o sep \o JoinWith(Tail(items), sep)

ConfidentText(item) == FLt(TextThreshold, item.confidence)
FoodTag(tag) == FLt(TagThreshold, tag.confidence) /\ tag.name \in FoodVocabulary

\* "TEXT DETECTED:" not in combined_description
LacksDetectedHeader(description) == ~Contains(description, DetectedMarker)

\* The loop over food_tags from tag i on:
\* [description |-> combined_description, added |-> added_tags]
\* Mutant: every food tag gets a line, whatever the text already holds
RECURSIVE AddTags_NoCheck(_, _, _)
AddTags_NoCheck(food_tags, i, acc) ==
    IF i > Len(food_tags) THEN acc
    ELSE AddTags_NoCheck(food_tags, i + 1,
                 [description |-> acc.description \o TagLinePrefix \o food_tags[i],
                  added |-> Append(acc.added, food_tags[i])])

RECURSIVE AddTags(_, _, _)
AddTags(food_tags, i, acc) ==
    IF i > Len(food_tags) THEN acc
    ELSE IF ~Contains(Lower(acc.description), Lower(food_tags[i]))
    THEN AddTags(food_tags, i + 1,
                 [description |-> acc.description \o TagLinePrefix \o food_tags[i],
                  added |-> Append(acc.added, food_tags[i])])
    ELSE AddTags(food_tags, i + 1, acc)

\* Mutant: agreement of the two sources raises the confidence
CombineAnalysisResults_Boosted(openai_analysis, vision_analysis) ==
    LET kept == SelectSeq(vision_analysis.text, ConfidentText)
        detected_text == JoinWith([k \in 1..Len(kept) |-> kept[k].text], TextSeparator)
        prepend == detected_text # <<>> /\ LacksDetectedHeader(openai_analysis.description)
        with_text == IF prepend
                     THEN DetectedHeader \o detected_text \o <<"\n">>
                              \o openai_analysis.description
                     ELSE openai_analysis.description
        food == SelectSeq(vision_analysis.tags, FoodTag)
        food_tags == [k \in 1..Len(food) |-> food[k].name]
        tagged == AddTags(food_tags, 1, [description |-> with_text, added |-> <<>>])
        synergy_notes == (IF prepend THEN <<NoteText>> ELSE <<>>)
                         \o (IF tagged.added # <<>> THEN <<tagged.added>> ELSE <<>>)
    IN  [description |-> tagged.description,
         confidence_boost |-> Some(IF prepend THEN Frac(1, 10) ELSE FZero),
         synergy_notes |-> Some(synergy_notes),
         analysis_methods |-> Some(<<"openai", "azure_vision">>)]

CombineAnalysisResults(openai_analysis, vision_analysis) ==
    LET kept == SelectSeq(vision_analysis.text, ConfidentText)
        detected_text == JoinWith([k \in 1..Len(kept) |-> kept[k].text], TextSeparator)
        prepend == detected_text # <<>> /\ LacksDetectedHeader(openai_analysis.description)
        with_text == IF prepend
                     THEN DetectedHeader \o detected_text \o <<"\n">>
                              \o openai_analysis.description
                     ELSE openai_analysis.description
        food == SelectSeq(vision_analysis.tags, FoodTag)
        food_tags == [k \in 1..Len(food) |-> food[k].name]
        tagged == AddTags(food_tags, 1, [description |-> with_text, added |-> <<>>])
        synergy_notes == (IF prepend THEN <<NoteText>> ELSE <<>>)
                         \o (IF tagged.added # <<>> THEN <<tagged.added>> ELSE <<>>)
    IN  [description |-> tagged.description,
         confidence_boost |-> Some(FZero),
         synergy_notes |-> Some(synergy_notes),
         analysis_methods |-> Some(<<"openai", "azure_vision">>)]

(***************************************************************************)
(* Inputs                                                                  *)
(***************************************************************************)
MaxFrags == 3

\* Pieces the describer's reply is made of
Fragments ==
    { <<"T","E","X","T"," ","D","E","T","E","C","T","E","D",":">>,
      <<"C","o","n","f","i","d","e","n","c","e"," ","s","c","o","r","e",":">>,
      <<"U","N","M","A","T","C","H","E","D">>,
      <<" ">>, <<"\n">>, <<"a","b","c">>, <<"X","y","z">>,
      <<"7">>, <<"0">>, <<".">> }

\* Descriptions files, as readlines() gives them
CatalogFiles ==
    { << <<"A","b","c"," ","X","y","z","\n">>,
         <<"X","y","z","\n">> >>,
      << <<"X","y","z","\n">>,
         <<"A","b","c"," ","X","y","z","\n">> >>,
      << <<"A","b","c"," ","o","f"," ","a","n"," ","o","r","\n">>,
         <<"\n">>,
         <<"X","y","z","\n">> >>,
      << <<"\n">> >> }

RECURSIVE Concat(_)
Concat(parts) == IF parts = <<>> THEN <<>> ELSE Head(parts) \o Concat(Tail(parts))

SeqsUpTo(S, n) == UNION {[1..k -> S] : k \in 0..n}

Replies == {Concat(f) : f \in SeqsUpTo(Fragments, MaxFrags)}

\* load_descriptions_from_file: the stripped non-blank lines
NonBlank(line) == Strip(line) # <<>>
LoadDescriptions(lines) ==
    LET kept == SelectSeq(lines, NonBlank)
    IN  [k \in 1..Len(kept) |-> Strip(kept[k])]

Catalogs == {LoadDescriptions(l) : l \in CatalogFiles}

\* The dict OpenAIAnalyzer.analyze_image returns for a reply
OpenAIAnalysis(content) ==
    [description |-> Strip(content), confidence_boost |-> None,
     synergy_notes |-> None, analysis_methods |-> None]

\* What VisionAnalyzer.analyze_image returns: a reading with one confident
\* text line and tags, and the empty reading (also returned on failure)
VisionResults ==
    { [caption |-> <<"a"," ","s","a","l","a","d">>,
       text |-> << [text |-> <<"X","y","z">>, confidence |-> Frac(9, 10)],
                   [text |-> <<"a","b","c">>, confidence |-> Frac(5, 10)] >>,
       tags |-> << [name |-> <<"s","a","l","a","d">>, confidence |-> Frac(9, 10)],
                   [name |-> <<"f","o","o","d">>, confidence |-> Frac(7, 10)] >>],
      [caption |-> <<>>, text |-> <<>>, tags |-> <<>>] }

CaptionPrefix == <<"C","a","p","t","i","o","n",":"," ">>
TagsPrefix == <<"T","a","g","s",":"," ">>
TagSeparator == <<","," ">>
MaxTags == 10

\* combined_analysis of the Vision-only branch of analyze_image
VisionOnlyAnalysis(vision_analysis) ==
    LET texts == [k \in 1..Len(vision_analysis.text) |-> vision_analysis.text[k].text]
        shown == FirstN(vision_analysis.tags, MaxTags)
        names == [k \in 1..Len(shown) |-> shown[k].name]
    IN  [description |->
             CaptionPrefix \o vision_analysis.caption \o <<"\n">>
             \o (IF vision_analysis.text # <<>>
                 THEN DetectedHeader \o JoinWith(texts, TextSeparator) \o <<"\n">>
                 ELSE <<>>)
             \o (IF vision_analysis.tags # <<>>
                 THEN TagsPrefix \o JoinWith(names, TagSeparator) \o <<"\n">>
                 ELSE <<>>),
         confidence_boost |-> None,
         synergy_notes |-> None,
         analysis_methods |-> None]

\* combined_analysis of analyze_image, by the services available
CombinedAnalyses(available) ==
    IF available = "both"
    THEN {CombineAnalysisResults(OpenAIAnalysis(c), v) : c \in Replies, v \in VisionResults}
    ELSE IF available = "openai"
    THEN {OpenAIAnalysis(c) : c \in Replies}
    ELSE {VisionOnlyAnalysis(v) : v \in VisionResults}

(***************************************************************************)
(* Analysis of one image                                                   *)
(***************************************************************************)
NoResult == [match |-> None, score |-> FZero, confidence |-> FZero,
             original_confidence |-> FZero, synergy_boost |-> FZero,
             is_explicit_unmatched |-> None, unmatched_reason |-> None]

Init ==
    /\ pc = "analyzed"
    /\ services \in {"both", "openai", "vision"}
    /\ descriptions \in Catalogs
    /\ analysis \in CombinedAnalyses(services)
    /\ best = [match |-> None, score |-> FZero]
    /\ result = NoResult
    /\ image_paths = <<>>
    /\ idx = 0
    /\ results = <<>>
    /\ failed = {}
    /\ from_openai = None
    /\ from_vision = None
    /\ calls = <<>>
    /\ args = None

\* match_result = self.find_best_match(combined_analysis)
FindBestMatchStep ==
    /\ pc = "analyzed"
    /\ best' = BestOf(analysis, descriptions)
    /\ result' = FindBestMatch(analysis, descriptions)
    /\ pc' = "matched"
    /\ UNCHANGED <<services, descriptions, analysis, image_paths, idx, results, failed, others>>

Next == FindBestMatchStep

Spec == Init /\ [][Next]_vars

(***************************************************************************)
(* main: the batch loop                                                    *)
(***************************************************************************)
MaxImages == 2

\* Paths glob returns
ImagePaths == { <<"d","/","a",".","j","p","g">>, <<"d","/","b",".","j","p","g">>, <<"d","/","c">> }

\* Replies of the describer in a batch
BatchReplies ==
    { <<"T","E","X","T"," ","D","E","T","E","C","T","E","D",":"," ","X","y","z","\n","C","o","n","f","i","d","e","n","c","e"," ","s","c","o","r","e",":"," ","7","/","1","0">>,
      <<"U","N","M","A","T","C","H","E","D"," ","a","b","c">>,
      <<"p","l","a","i","n"," ","b","a","g","e","l">> }

\* error_message of validate_image_file for an invalid file
InvalidMessages == {"File does not exist", "File is empty", "File is a Git LFS pointer"}

\* str(e) of the exceptions analyze_image raises
AnalyzeErrors == {"Image file not found"}

\* os.path.basename(path)
Basename(path) ==
    LET seps == {i \in 1..Len(path) : path[i] = "/"}
    IN  IF seps = {} THEN path ELSE SubSeq(path, Greatest(seps) + 1, Len(path))

\* The dict analyze_image returns: the combined analysis updated with the
\* match result and match_filename
AnalyzeImage(an, file_name, descs) ==
    LET r == FindBestMatch(an, descs)
    IN  [file_name |-> file_name,
         description |-> an.description,
         match |-> r.match,
         score |-> r.score,
         confidence |-> r.confidence,
         original_confidence |-> r.original_confidence,
         synergy_boost |-> r.synergy_boost,
         is_explicit_unmatched |-> r.is_explicit_unmatched,
         unmatched_reason |-> r.unmatched_reason,
         match_filename |-> CreateMatchFilename(Some(file_name), r.match, r.confidence)]

ErrorRecord(path, message) == [file_name |-> Basename(path), error |-> message]

RECURSIVE Distinct(_)
Distinct(q) ==
    \/ q = <<>>
    \/ (\A k \in 2..Len(q) : q[k] # q[1]) /\ Distinct(Tail(q))

BatchInit ==
    /\ pc = "loop"
    /\ services \in {"both", "openai", "vision"}
    /\ descriptions \in Catalogs \ {<<>>}
    /\ image_paths \in {q \in SeqsUpTo(ImagePaths, MaxImages) : q # <<>> /\ Distinct(q)}
    /\ idx = 0
    /\ results = <<>>
    /\ failed = {}
    /\ from_openai = None
    /\ from_vision = None
    /\ calls = <<>>
    /\ args = None
    /\ analysis \in CombinedAnalyses("openai")
    /\ analysis.description = <<>>
    /\ best = [match |-> None, score |-> FZero]
    /\ result = NoResult

InLoop == pc = "loop" /\ idx < Len(image_paths)

\* One iteration for a file validate_image_file rejects
SkipInvalidImage ==
    /\ InLoop
    /\ \E message \in InvalidMessages :
          results' = Append(results, ErrorRecord(image_paths[idx + 1], message))
    /\ idx' = idx + 1
    /\ UNCHANGED <<pc, services, descriptions, analysis, best, result, image_paths, failed, others>>

\* Mutant: the exception leaves the loop
AnalyzeImageRaises_Aborts ==
    /\ InLoop
    /\ pc' = "saved"
    /\ UNCHANGED <<services, descriptions, analysis, best, result, image_paths, idx, results,
                 failed, others>>

\* One iteration in which analyze_image raises
AnalyzeImageRaises ==
    /\ InLoop
    /\ \E message \in AnalyzeErrors :
          results' = Append(results, ErrorRecord(image_paths[idx + 1], message))
    /\ idx' = idx + 1
    /\ UNCHANGED <<pc, services, descriptions, analysis, best, result, image_paths, failed, others>>

\* Mutant: an analyzed image uses up the first entry of the catalog
AnalyzeImageOk_ConsumesCatalog ==
    /\ InLoop
    /\ \E reply \in BatchReplies, v \in VisionResults :
          LET an == IF services = "both"
                    THEN CombineAnalysisResults(OpenAIAnalysis(reply), v)
                    ELSE IF services = "openai"
                    THEN OpenAIAnalysis(reply)
                    ELSE VisionOnlyAnalysis(v)
          IN  results' = Append(results,
                  AnalyzeImage(an, Basename(image_paths[idx + 1]), descriptions))
    /\ idx' = idx + 1
    /\ descriptions' = IF Len(descriptions) > 1 THEN Tail(descriptions) ELSE descriptions
    /\ UNCHANGED <<pc, services, analysis, best, result, image_paths, failed, others>>

\* One iteration in which analyze_image returns
AnalyzeImageOk ==
    /\ InLoop
    /\ \E reply \in BatchReplies, v \in VisionResults :
          LET an == IF services = "both"
                    THEN CombineAnalysisResults(OpenAIAnalysis(reply), v)
                    ELSE IF services = "openai"
                    THEN OpenAIAnalysis(reply)
                    ELSE VisionOnlyAnalysis(v)
          IN  results' = Append(results,
                  AnalyzeImage(an, Basename(image_paths[idx + 1]), descriptions))
    /\ idx' = idx + 1
    /\ UNCHANGED <<pc, services, descriptions, analysis, best, result, image_paths, failed, others>>

\* The loop is over: results.json is written
SaveResults ==
    /\ pc = "loop"
    /\ idx = Len(image_paths)
    /\ pc' = "saved"
    /\ UNCHANGED <<services, descriptions, analysis, best, result, image_paths, idx, results,
                 failed, others>>

BatchNext ==
    \/ SkipInvalidImage
    \/ AnalyzeImageRaises
    \/ AnalyzeImageOk
    \/ SaveResults

SpecBatch == BatchInit /\ [][BatchNext]_vars

(***************************************************************************)
(* The batch loop when the services fail                                   *)
(***************************************************************************)
\* str(e) of what the chat-completion call or encode_image_to_base64 raises
OpenAIErrors == { <<"C","o","n","n","e","c","t","i","o","n"," ","e","r","r","o","r",".">>, <<"R","e","q","u","e","s","t"," ","t","i","m","e","d"," ","o","u","t",".">> }

ErrorPrefix == <<"E","r","r","o","r",":"," ">>

\* The dict OpenAIAnalyzer.analyze_image returns from its except branch
OpenAIFailure(message) ==
    [description |-> ErrorPrefix \o message, confidence_boost |-> None,
     synergy_notes |-> None, analysis_methods |-> None]

\* The dict VisionAnalyzer.analyze_image returns from its except branch
VisionFailure == [caption |-> <<>>, text |-> <<>>, tags |-> <<>>]

UpstreamInit ==
    /\ BatchInit
    /\ Len(descriptions) = 2

\* What the OpenAI call of one iteration comes to: a reply, or an exception
\* (of the chat completion or of the encoding before it)
OpenAIOutcomes ==
    {[raised |-> FALSE, analysis |-> OpenAIAnalysis(reply)] : reply \in BatchReplies}
    \cup {[raised |-> TRUE, analysis |-> OpenAIFailure(message)] : message \in OpenAIErrors}

\* What the Vision call of one iteration comes to
VisionOutcomes ==
    {[raised |-> FALSE, analysis |-> v] : v \in VisionResults}
    \cup {[raised |-> TRUE, analysis |-> VisionFailure]}

\* One iteration in which a call to a service in use raises
AnalyzeImageUpstreamFails ==
    /\ InLoop
    /\ \E o \in OpenAIOutcomes, v \in VisionOutcomes :
          /\ \/ services # "vision" /\ o.raised
             \/ services # "openai" /\ v.raised
          /\ LET an == IF services = "both"
                       THEN CombineAnalysisResults(o.analysis, v.analysis)
                       ELSE IF services = "openai"
                       THEN o.analysis
                       ELSE VisionOnlyAnalysis(v.analysis)
             IN  results' = Append(results,
                     AnalyzeImage(an, Basename(image_paths[idx + 1]), descriptions))
    /\ idx' = idx + 1
    /\ failed' = failed \cup {idx + 1}
    /\ UNCHANGED others
    /\ UNCHANGED <<pc, services, descriptions, analysis, best, result, image_paths>>

UpstreamNext ==
    \/ AnalyzeImageUpstreamFails
    \/ AnalyzeImageOk
    \/ SaveResults

SpecUpstream == UpstreamInit /\ [][UpstreamNext]_vars

(***************************************************************************)
(* _create_match_filename on its own                                       *)
(***************************************************************************)
MaxParts == 3

\* Pieces of a match string
MatchParts ==
    { <<"U","N","M","A","T","C","H","E","D"," ">>, <<"A","B">>, <<"A","b">>, <<" "," ">>, <<" ">>,
      <<"A","B","\n","C","O","N","F","I","D","E","N","C","E"," ","S","C","O","R","E"," ","7">>, <<"\n","C","D">>, <<"é">>, <<"É">>, <<"!","-","_","7">> }

\* A catalog entry: a stripped, non-blank line
IsCatalogLine(m) == m # <<>> /\ Strip(m) = m /\ \A i \in DOMAIN m : m[i] # "\n"

\* f"UNMATCHED {label}", the label stripped, uppercased, of word characters
\* and whitespace
IsSynthesized(m) ==
    /\ StartsWith(m, UnmatchedPrefix \o <<" ">>)
    /\ LET label == SubSeq(m, Len(UnmatchedPrefix) + 2, Len(m))
       IN  /\ Strip(label) = label
           /\ Upper(label) = label
           /\ \A i \in DOMAIN label : label[i] \in WordSet \cup SpaceSet

\* The values of analysis["match"]: absent, a catalog entry, or synthesized
FilenameMatches ==
    {None} \cup
    {Some(m) : m \in {c \in {Concat(f) : f \in SeqsUpTo(MatchParts, MaxParts)} :
                         IsCatalogLine(c) \/ IsSynthesized(c)}}

\* Reported confidences with one decimal, in tenths
ReportedTenths == {7, 29, 57, 70, 85, 100}

\* The values of analysis["confidence"]: a reported value over 10, or a score
FilenameConfidences ==
    {FDiv10(Frac(k, 10)) : k \in ReportedTenths}
    \cup {FZero, LowScore, TextMatchScore, Frac(1, 3)}

FileNames == { <<"t","e","s","t",".","j","p","g">>, <<"o","t","h","e","r",".","j","p","g">>,
               <<"a",".","b",".","P","N","G">>, <<"n","o","e","x","t">> }

FilenameInit ==
    /\ pc = "updated"
    /\ analysis \in [file_name : {Some(n) : n \in FileNames},
                     match : FilenameMatches,
                     confidence : FilenameConfidences]
    /\ services = "openai"
    /\ descriptions = <<>>
    /\ best = [match |-> None, score |-> FZero]
    /\ result = NoResult
    /\ image_paths = <<>>
    /\ idx = 0
    /\ results = <<>>
    /\ failed = {}
    /\ from_openai = None
    /\ from_vision = None
    /\ calls = <<>>
    /\ args = None

\* combined_analysis["match_filename"] = self._create_match_filename(combined_analysis)
CreateMatchFilenameStep ==
    /\ pc = "updated"
    /\ analysis' = [file_name |-> analysis.file_name,
                    match |-> analysis.match,
                    confidence |-> analysis.confidence,
                    match_filename |->
                        CreateMatchFilename(analysis.file_name, analysis.match,
                                            analysis.confidence)]
    /\ pc' = "named"
    /\ UNCHANGED <<services, descriptions, best, result, image_paths, idx, results, failed, others>>

FilenameNext == CreateMatchFilenameStep

SpecFilename == FilenameInit /\ [][FilenameNext]_vars

(***************************************************************************)
(* Properties of find_best_match                                           *)
(***************************************************************************)
Matched == pc = "matched"
TextOf(an) == Lower(an.description)
IsUnmatchedText(m) == StartsWith(m, UnmatchedPrefix)
Entries == {descriptions[i] : i \in DOMAIN descriptions}

\* The entries Phase A accepts for the detected text
PhaseAHits ==
    LET d == DetectedText(TextOf(analysis))
    IN  IF d = <<>> THEN {}
        ELSE {i \in DOMAIN descriptions :
                \/ Contains(Lower(descriptions[i]), d)
                \/ Contains(d, Lower(descriptions[i]))}

\* Phase-B score of a description against a text: its tokens longer than 2
\* found in the text, over its token count
OverlapScore(description, text) ==
    LET words == Split(Lower(description))
        found == {k \in DOMAIN words : Len(words[k]) > 2 /\ Contains(text, words[k])}
    IN  Frac(Cardinality(found), Len(words))

\* The Phase-B scores of the catalog, by index
Scores ==
    LET text == TextOf(analysis)
    IN  [i \in DOMAIN descriptions |-> OverlapScore(descriptions[i], text)]

\* The indices at which a sequence of scores is maximal
MaxEntries(sc) == {i \in DOMAIN sc : \A j \in DOMAIN sc : FLe(sc[j], sc[i])}

\* C1: the record find_best_match returns has 0 <= confidence <= 1, and
\* confidence <= 0.9 whenever is_explicit_unmatched is true.
C1_ConfidenceBounds ==
    Matched =>
        /\ FLe(FZero, result.confidence)
        /\ FLe(result.confidence, FOne)
        /\ (result.is_explicit_unmatched = Some(TRUE)
                => FLe(result.confidence, UnmatchedCap))

\* C1 witness: a fused analysis, explicitly unmatched, whose base confidence
\* exceeds 0.9 and was capped
C1_Witness ==
    /\ Matched
    /\ analysis.confidence_boost = Some(FZero)
    /\ result.is_explicit_unmatched = Some(TRUE)
    /\ FLt(UnmatchedCap, result.original_confidence)
    /\ FEq(result.confidence, UnmatchedCap)

C3_EarliestWinsTie ==
    (Matched /\ PhaseAHits = {})
    => LET sc == Scores
           mx == MaxEntries(sc)
       IN  (mx # {} /\ FLt(FZero, sc[Least(mx)]))
           => best.match = Some(descriptions[Least(mx)])

\* C3 witness: two entries tie at the nonzero maximum
C3_Witness ==
    /\ Matched
    /\ PhaseAHits = {}
    /\ LET sc == Scores
           mx == MaxEntries(sc)
       IN  /\ Cardinality(mx) >= 2
           /\ FLt(FZero, sc[Least(mx)])
           /\ best.match = Some(descriptions[Least(mx)])

\* C4: with a non-empty detected text, the first entry that contains it or is
\* contained in it is the best match with score exactly 0.9, whatever the
\* bag-of-words scores are.
C4_TextShortCircuit ==
    Matched
    => LET hits == PhaseAHits
       IN  hits # {}
           => /\ best.match = Some(descriptions[Least(hits)])
              /\ best.score = TextMatchScore
              /\ result.score = TextMatchScore

\* C4 witness: Phase A selects an entry although another entry has a higher
\* bag-of-words score, above 0.9
C4_Witness ==
    /\ Matched
    /\ LET hits == PhaseAHits
           sc == Scores
       IN  /\ hits # {}
           /\ \E j \in DOMAIN sc :
                 FLt(sc[Least(hits)], sc[j]) /\ FLt(TextMatchScore, sc[j])
           /\ best.match = Some(descriptions[Least(hits)])

\* C5: when Phase A finds nothing, each entry scores (tokens longer than 2
\* found in the text) / (token count), in [0,1]; the best match is an entry of
\* maximum score, and the result is (None, 0) when the catalog is empty or
\* every entry scores 0.
C5_OverlapScore ==
    (Matched /\ PhaseAHits = {})
    => LET sc == Scores
       IN  /\ \A i \in DOMAIN sc : FLe(FZero, sc[i]) /\ FLe(sc[i], FOne)
           /\ result.score = best.score
           /\ IF \E i \in DOMAIN sc : FLt(FZero, sc[i])
              THEN \E i \in MaxEntries(sc) :
                      /\ best.match = Some(descriptions[i])
                      /\ FEq(best.score, sc[i])
              ELSE best.match = None /\ FEq(best.score, FZero)

\* C5 witness: the best entry has a score strictly between 0 and 1 and some
\* entry scores 0
C5_Witness ==
    /\ Matched
    /\ PhaseAHits = {}
    /\ FLt(FZero, best.score)
    /\ FLt(best.score, FOne)
    /\ LET sc == Scores
       IN  \E i \in DOMAIN sc : FEq(sc[i], FZero)

\* The reported confidence as parsed from the text: None when no number
\* follows a "confidence" token or the number does not parse
ReportedConfidence ==
    LET m == ConfidenceMatch(TextOf(analysis))
    IN  IF m = None \/ ParseFloat(m[1]) = None THEN None
        ELSE Some(ConfidenceScore(TextOf(analysis)))

InScale(r) == FLe(FZero, r) /\ FLe(r, Frac(10, 1))

\* C6: without an explicit unmatched label, for every reported confidence r
\* in [0,10] that is present, confidence = min(r/10 + synergy_boost, 1.0) and
\* original_confidence = r/10; only when it is absent, confidence =
\* min(match_score + synergy_boost, 1.0) and original_confidence = match_score.
C6_ReportedDominates ==
    (Matched /\ result.is_explicit_unmatched = None)
    => IF ReportedConfidence # None
       THEN InScale(ReportedConfidence[1])
            => /\ FEq(result.confidence,
                      FMin(FAdd(FDiv10(ReportedConfidence[1]), result.synergy_boost), FOne))
               /\ FEq(result.original_confidence, FDiv10(ReportedConfidence[1]))
       ELSE /\ FEq(result.confidence, FMin(FAdd(result.score, result.synergy_boost), FOne))
            /\ FEq(result.original_confidence, result.score)

\* C7: on the explicit-unmatched path, base = r/10 whenever a reported
\* confidence r in [0,10] is present, otherwise base = max(0.3, match_score);
\* confidence = min(base + synergy_boost, 0.9) and original_confidence = base.
C7_UnmatchedBase ==
    (Matched /\ result.is_explicit_unmatched = Some(TRUE))
    => LET base == IF ReportedConfidence # None THEN FDiv10(ReportedConfidence[1])
                   ELSE FMax(LowScore, result.score)
       IN  (ReportedConfidence # None => InScale(ReportedConfidence[1]))
           => /\ FEq(result.original_confidence, base)
              /\ FEq(result.confidence,
                     FMin(FAdd(base, result.synergy_boost), UnmatchedCap))

\* The text has an "unmatched" marker followed, after optional whitespace and
\* dashes, by a label character
HasUnmatchedLabel ==
    LET text == TextOf(analysis)
    IN  \E i \in Occurrences(text, UnmatchedWord) :
            LET a == RunEnd(text, i + Len(UnmatchedWord), SpaceSet \cup {"-"})
            IN  a <= Len(text) /\ text[a] \in WordSet

\* C8: whenever the text has the "unmatched" marker followed by a label, match
\* starts with "UNMATCHED" and is_explicit_unmatched is true, whatever entry
\* and score the matching found; the fallback is not applied.
C8_ExplicitUnmatchedWins ==
    (Matched /\ HasUnmatchedLabel)
    => /\ result.match # None
       /\ IsUnmatchedText(result.match[1])
       /\ result.is_explicit_unmatched = Some(TRUE)
       /\ result.unmatched_reason = Some(ReasonExplicit)
       /\ result.match[1] = UnmatchedPrefix \o <<" ">>
                                \o Upper(Strip(UnmatchedMatch(TextOf(analysis))[1]))

\* C8 witness: the marker is present and Phase A found a catalog entry
C8_Witness ==
    /\ Matched
    /\ HasUnmatchedLabel
    /\ best.match # None
    /\ best.score = TextMatchScore
    /\ result.is_explicit_unmatched = Some(TRUE)

\* The text from which every marker line is removed, from the marker to the
\* end of its line, the last line included
RECURSIVE WithoutLines(_, _, _)
WithoutLines(s, i, marker) ==
    IF i > Len(s) THEN <<>>
    ELSE IF MatchesAt(s, i, marker)
    THEN WithoutLines(s, LineEnd(s, i + Len(marker)) + 1, marker)
    ELSE <<s[i]>> \o WithoutLines(s, i + 1, marker)

ExpectedLabel ==
    LET cleaned == WithoutLines(WithoutLines(TextOf(analysis), 1, TextDetectedMarker),
                                1, ConfidenceScoreMarker)
        words == SelectSeq(Split(cleaned), FoodWord)
    IN  Join(FirstN([k \in DOMAIN words |-> Upper(words[k])], MaxFoodWords))

FallbackTriggers ==
    /\ Matched
    /\ UnmatchedMatch(TextOf(analysis)) = None
    /\ (best.match = None \/ FLt(best.score, LowScore))

\* C9: when the fallback triggers, match is "UNMATCHED " followed by the first
\* at most four alphabetic tokens longer than 2, uppercased, of the text with
\* every "text detected:" and "confidence score:" line removed, wherever the
\* line is, the last line included; unmatched_reason is "No good match found".
C9_FallbackLabel ==
    FallbackTriggers
    => /\ result.match = Some(UnmatchedPrefix \o <<" ">> \o ExpectedLabel)
       /\ result.unmatched_reason = Some(ReasonNoMatch)

(***************************************************************************)
(* Properties of the batch loop                                            *)
(***************************************************************************)
IsMatchRecord(r) ==
    /\ {"match", "confidence", "match_filename"} \subseteq DOMAIN r
    /\ r.match # None
    /\ r.match_filename # <<>>
    /\ "error" \notin DOMAIN r

IsErrorRecord(r) ==
    /\ "error" \in DOMAIN r
    /\ {"match", "confidence", "match_filename"} \cap DOMAIN r = {}

\* C10: after the batch loop, results holds exactly one record per image of the
\* list, in order, and each record carries either match, confidence and
\* match_filename and no error, or an error and none of the three; an invalid
\* image or an exception never keeps the remaining images from being processed.
C10_OneRecordPerImage ==
    /\ Len(results) = idx
    /\ pc = "saved"
       => /\ Len(results) = Len(image_paths)
          /\ \A i \in DOMAIN results :
                /\ results[i].file_name = Basename(image_paths[i])
                /\ IsMatchRecord(results[i]) \/ IsErrorRecord(results[i])

\* C10 witness: a run in which an image failed and a later image was analyzed
C10_Witness ==
    /\ pc = "saved"
    /\ \E i, j \in DOMAIN results :
          /\ i < j
          /\ IsErrorRecord(results[i])
          /\ results[i].error \in AnalyzeErrors
          /\ IsMatchRecord(results[j])

\* C11: whenever an upstream call fails for an image, the record of that
\* image carries an error field and no match, confidence or match_filename,
\* and the batch goes on to the next image.
C11_UpstreamFailureIsError ==
    /\ Len(results) = idx
    /\ \A i \in failed : IsErrorRecord(results[i])
    /\ pc = "saved" => Len(results) = Len(image_paths)

\* C12: any two distinct images of a run that both receive a match get
\* different match_filename values, so no copy overwrites another.
C12_FilenamesDiffer ==
    \A i, j \in DOMAIN results :
        (i # j /\ IsMatchRecord(results[i]) /\ IsMatchRecord(results[j]))
        => results[i].match_filename # results[j].match_filename

(***************************************************************************)
(* analyze_image with both services: combine_analysis_results              *)
(***************************************************************************)
MaxVisionItems == 2

\* Replies of the OpenAI service
PrimaryTexts ==
    { <<"a"," ","S","a","l","a","d">>,
      <<"p","l","a","i","n"," ","b","a","g","e","l">>,
      <<"T","E","X","T"," ","D","E","T","E","C","T","E","D",":"," ","X","y","z","\n","b","a","g","e","l">>,
      <<"T","e","x","t"," ","d","e","t","e","c","t","e","d",":"," ","X","y","z","\n","b","a","g","e","l">>,
      <<"U","N","M","A","T","C","H","E","D"," ","b","a","g","e","l","\n","C","o","n","f","i","d","e","n","c","e"," ","s","c","o","r","e",":"," ","7","/","1","0">> }

\* Lines the Vision service reads, with their confidence
VisionTextItems ==
    { [text |-> <<"A","b","c">>, confidence |-> Frac(9, 10)],
      [text |-> <<"X","y","z">>, confidence |-> Frac(5, 10)],
      [text |-> <<"m","e","a","t"," ","l","o","a","f">>, confidence |-> Frac(8, 10)] }

\* Tags the Vision service gives, with their confidence
VisionTagItems ==
    { [name |-> <<"s","a","l","a","d">>, confidence |-> Frac(9, 10)],
      [name |-> <<"m","e","a","t">>, confidence |-> Frac(8, 10)],
      [name |-> <<"f","o","o","d">>, confidence |-> Frac(7, 10)],
      [name |-> <<"S","a","l","a","d">>, confidence |-> Frac(9, 10)] }

FusionInit ==
    /\ pc = "fusing"
    /\ services = "both"
    /\ descriptions = << <<"A","b","c"," ","X","y","z">>, <<"X","y","z">> >>
    /\ from_openai \in {OpenAIAnalysis(t) : t \in PrimaryTexts}
    /\ from_vision \in [caption : {<<>>},
                            text : SeqsUpTo(VisionTextItems, MaxVisionItems),
                            tags : SeqsUpTo(VisionTagItems, MaxVisionItems)]
    /\ analysis = None
    /\ best = [match |-> None, score |-> FZero]
    /\ result = NoResult
    /\ image_paths = <<>>
    /\ idx = 0
    /\ results = <<>>
    /\ failed = {}
    /\ calls = <<>>
    /\ args = None

\* combined_analysis = self.combine_analysis_results(openai_analysis, vision_analysis)
CombineStep ==
    /\ pc = "fusing"
    /\ analysis' = CombineAnalysisResults(from_openai, from_vision)
    /\ pc' = "analyzed"
    /\ UNCHANGED <<services, descriptions, best, result, image_paths, idx, results, failed, others>>

FusionNext == CombineStep \/ FindBestMatchStep

SpecFusion == FusionInit /\ [][FusionNext]_vars

(***************************************************************************)
(* sanitize_filename                                                       *)
(***************************************************************************)
MaxNameLen == 3

\* Characters of the names handed to sanitize_filename
NameChars == {"A", "b", "7", "_", "-", " ", "/", "!", "\n", "é"}

SanitizeInit ==
    /\ pc = "name"
    /\ analysis \in [name : SeqsUpTo(NameChars, MaxNameLen)]
    /\ services = "openai"
    /\ descriptions = <<>>
    /\ best = <<>>
    /\ result = <<>>
    /\ image_paths = <<>>
    /\ idx = 0
    /\ results = <<>>
    /\ failed = {}
    /\ from_openai = None
    /\ from_vision = None
    /\ calls = <<>>
    /\ args = None

\* result = sanitize_filename(name)
SanitizeStep ==
    /\ pc = "name"
    /\ result' = SanitizeFilename(analysis.name)
    /\ pc' = "sanitized"
    /\ UNCHANGED <<services, descriptions, analysis, best, image_paths, idx, results, failed, others>>

\* sanitize_filename(result), the function applied to its own output
SanitizeAgainStep ==
    /\ pc = "sanitized"
    /\ best' = SanitizeFilename(result)
    /\ pc' = "sanitized twice"
    /\ UNCHANGED <<services, descriptions, analysis, result, image_paths, idx, results, failed, others>>

SanitizeNext == SanitizeStep \/ SanitizeAgainStep

SpecSanitize == SanitizeInit /\ [][SanitizeNext]_vars

\* C26: sanitize_filename replaces each character outside [A-Za-z0-9_-] by one
\* underscore and leaves every other character as it is, so the output is as
\* long as the input (the empty string stays empty), and applying it twice
\* gives what applying it once gives.
C26_SanitizeOneForOne ==
    /\ pc \in {"sanitized", "sanitized twice"}
       => /\ Len(result) = Len(analysis.name)
          /\ \A i \in DOMAIN result :
                IF analysis.name[i] \in AsciiWordSet \cup {"-"}
                THEN result[i] = analysis.name[i]
                ELSE result[i] = "_"
    /\ pc = "sanitized twice" => best = result

\* C26 witness: a name with two invalid characters in a row, one of them
\* outside ASCII, sanitized twice
C26_Witness ==
    /\ pc = "sanitized twice"
    /\ \E i \in DOMAIN analysis.name :
          /\ i > 1
          /\ analysis.name[i] \in WordSet \ AsciiWordSet
          /\ analysis.name[i - 1] \notin AsciiWordSet \cup {"-"}

(***************************************************************************)
(* analyze_image, call by call                                             *)
(***************************************************************************)
FileNotFound == "Image file not found"
NoServices == "No AI services available for image analysis"

AnalyzeInit ==
    /\ pc = "start"
    /\ services \in {"both", "openai", "vision", "none"}
    /\ descriptions \in {c \in Catalogs : Len(c) = 2}
    /\ image_paths \in {<<path>> : path \in ImagePaths}
    /\ args \in [exists : BOOLEAN]
    /\ analysis = None
    /\ best = [match |-> None, score |-> FZero]
    /\ result = NoResult
    /\ idx = 0
    /\ results = <<>>
    /\ failed = {}
    /\ from_openai = None
    /\ from_vision = None
    /\ calls = <<>>

\* Mutant: the path is not looked at before the services are called
StartAnalyze_NoPathCheck ==
    /\ pc = "start"
    /\ IF services = "none"
       THEN pc' = "raised" /\ result' = [raised |-> NoServices]
       ELSE pc' = "checked" /\ result' = result
    /\ UNCHANGED <<services, descriptions, analysis, best, image_paths, idx, results, failed, others>>

\* The checks before any call: the path exists, a service is configured
StartAnalyze ==
    /\ pc = "start"
    /\ IF ~args.exists
       THEN pc' = "raised" /\ result' = [raised |-> FileNotFound]
       ELSE IF services = "none"
       THEN pc' = "raised" /\ result' = [raised |-> NoServices]
       ELSE pc' = "checked" /\ result' = result
    /\ UNCHANGED <<services, descriptions, analysis, best, image_paths, idx, results, failed, others>>

\* vision_analysis = self.vision_service.analyze_image(image_path)
CallVision ==
    /\ pc = "checked"
    /\ services \in {"both", "vision"}
    /\ \E v \in VisionOutcomes :
          /\ from_vision' = v.analysis
          /\ analysis' = IF services = "vision" THEN VisionOnlyAnalysis(v.analysis) ELSE analysis
    /\ calls' = Append(calls, <<"vision", image_paths[1]>>)
    /\ pc' = IF services = "both" THEN "vision done" ELSE "analyzed"
    /\ UNCHANGED <<services, descriptions, best, result, image_paths, idx, results, failed,
                 from_openai, args>>

\* openai_analysis = self.openai_service.analyze_image(image_path,
\*     self.descriptions, vision_analysis)
CallOpenAI ==
    /\ \/ pc = "vision done" /\ services = "both"
       \/ pc = "checked" /\ services = "openai"
    /\ \E o \in OpenAIOutcomes :
          /\ from_openai' = o.analysis
          /\ analysis' = IF services = "openai" THEN o.analysis ELSE analysis
    /\ calls' = Append(calls, <<"openai", image_paths[1], descriptions, from_vision>>)
    /\ pc' = IF services = "both" THEN "fusing" ELSE "analyzed"
    /\ UNCHANGED <<services, descriptions, best, result, image_paths, idx, results, failed,
                 from_vision, args>>

\* combined_analysis.update(match_result), match_filename, return
ReturnStep ==
    /\ pc = "matched"
    /\ LET file_name == Basename(image_paths[1])
           keys == DOMAIN result \cup {"file_name", "description", "match_filename"}
       IN  results' =
               << [k \in keys |->
                      CASE k = "file_name" -> file_name
                        [] k = "description" -> analysis.description
                        [] k = "match_filename" ->
                               CreateMatchFilename(Some(file_name), result.match,
                                                   result.confidence)
                        [] OTHER -> result[k]] >>
    /\ pc' = "returned"
    /\ UNCHANGED <<services, descriptions, analysis, best, result, image_paths, idx, failed, others>>

AnalyzeNext ==
    \/ StartAnalyze
    \/ CallVision
    \/ CallOpenAI
    \/ CombineStep
    \/ FindBestMatchStep
    \/ ReturnStep

SpecAnalyze == AnalyzeInit /\ [][AnalyzeNext]_vars

MaxFound == 5

\* load_descriptions_from_file(file_path): the stripped non-blank lines, or
\* [] for a file that cannot be read (None)
LoadDescriptionsFromFile(file) ==
    IF file = None THEN <<>> ELSE LoadDescriptions(file[1])

\* args.descriptions_file: the catalog files and a missing one
DescriptionsFiles == {None} \cup {Some(l) : l \in CatalogFiles}

\* glob.glob(image_pattern): up to n paths d/0.jpg, d/1.jpg, ...
GlobPath(i) ==
    <<"d", "/", <<"0", "1", "2", "3", "4", "5", "6", "7", "8", "9">>[i], ".", "j", "p", "g">>
GlobResults(n) == {[k \in 1..m |-> GlobPath(k)] : m \in 0..n}

\* Mutant: the evenly spaced paths are not cut to the sample size
SampleImagePaths_NoCut(paths, sample) ==
    IF sample > 0 /\ sample < Len(paths)
    THEN LET step == Len(paths) \div sample
         IN  [k \in 1..((Len(paths) - 1) \div step + 1) |-> paths[(k - 1) * step + 1]]
    ELSE paths

\* image_paths[::step][:args.sample] under its guard
SampleImagePaths(paths, sample) ==
    IF sample > 0 /\ sample < Len(paths)
    THEN LET step == Len(paths) \div sample
             strided == [k \in 1..((Len(paths) - 1) \div step + 1) |->
                            paths[(k - 1) * step + 1]]
         IN  SubSeq(strided, 1, Least({sample, Len(strided)}))
    ELSE paths

\* main is entered with the parsed arguments; services is what the two
\* is_available() calls report
MainInitWith(founds, samples) ==
    /\ pc = "main"
    /\ analysis \in CombinedAnalyses("openai")
    /\ analysis.description = <<>>
    /\ services \in {"both", "openai", "vision", "none"}
    /\ args \in [allow_single_service : BOOLEAN,
                 sample : samples,
                 descriptions_file : DescriptionsFiles,
                 found : founds]
    /\ descriptions = <<>>
    /\ image_paths = <<>>
    /\ idx = 0
    /\ results = <<>>
    /\ failed = {}
    /\ from_openai = None
    /\ from_vision = None
    /\ calls = <<>>
    /\ best = [match |-> None, score |-> FZero]
    /\ result = NoResult

\* Mutant: one available service is enough without the flag
ServiceGate_AnyService ==
    /\ pc = "main"
    /\ pc' = IF services = "none" THEN "exit" ELSE "load"
    /\ UNCHANGED <<services, descriptions, analysis, best, result, image_paths, idx, results,
                 failed, others>>

\* The two availability checks and the branch on them
ServiceGate ==
    /\ pc = "main"
    /\ pc' = IF services = "none"
             THEN "exit"
             ELSE IF services = "both" \/ args.allow_single_service
             THEN "load"
             ELSE "exit"
    /\ UNCHANGED <<services, descriptions, analysis, best, result, image_paths, idx, results,
                 failed, others>>

\* descriptions = load_descriptions_from_file(...); return if there are none
LoadCatalog ==
    /\ pc = "load"
    /\ descriptions' = LoadDescriptionsFromFile(args.descriptions_file)
    /\ pc' = IF descriptions' = <<>> THEN "exit" ELSE "glob"
    /\ UNCHANGED <<services, analysis, best, result, image_paths, idx, results, failed, others>>

\* image_paths = glob.glob(image_pattern); return if there are none
GlobImages ==
    /\ pc = "glob"
    /\ image_paths' = args.found
    /\ pc' = IF image_paths' = <<>> THEN "exit" ELSE "lfs"
    /\ UNCHANGED <<services, descriptions, analysis, best, result, idx, results, failed, others>>

\* The check of the first files for Git LFS pointers: no pointer is seen, or
\* run_git_lfs_pull is called and main goes on, returns at the user's
\* request, or ends with the exception run_git_lfs_pull let through
CheckLfsPointers ==
    /\ pc = "lfs"
    /\ \E outcome \in {"sample", "exit", "raised"} : pc' = outcome
    /\ UNCHANGED <<services, descriptions, analysis, best, result, image_paths, idx, results,
                 failed, others>>

\* The --sample limit; the loop starts after it
SampleImages ==
    /\ pc = "sample"
    /\ image_paths' = SampleImagePaths(image_paths, args.sample)
    /\ pc' = "loop"
    /\ UNCHANGED <<services, descriptions, analysis, best, result, idx, results, failed, others>>

MainInit == MainInitWith(GlobResults(MaxImages), {0, 1})

MainNext ==
    \/ ServiceGate
    \/ LoadCatalog
    \/ GlobImages
    \/ CheckLfsPointers
    \/ SampleImages
    \/ SkipInvalidImage
    \/ AnalyzeImageRaises
    \/ AnalyzeImageOk
    \/ SaveResults

SpecMain == MainInit /\ [][MainNext]_vars

\* main up to the selection of the images to analyze, for more images and
\* every sample size around their number
SampleInit == MainInitWith(GlobResults(MaxFound), -1..(MaxFound + 1))

SampleNext ==
    \/ ServiceGate
    \/ LoadCatalog
    \/ GlobImages
    \/ CheckLfsPointers
    \/ SampleImages

SpecSample == SampleInit /\ [][SampleNext]_vars

\* Records of images that were copied to the results directory: those with
\* a match
Copied == {i \in DOMAIN results :
              /\ "match" \in DOMAIN results[i]
              /\ results[i].match # None
              /\ results[i].match[1] # <<>>}

\* C29: if neither service is available, or exactly one is available and
\* --allow-single-service is not set, or the catalog is empty, or no image
\* matches the pattern, then no image is analyzed, nothing is copied and no
\* results.json is written.
C29_GateBlocksAnalysis ==
    (\/ services = "none"
     \/ services \in {"openai", "vision"} /\ ~args.allow_single_service
     \/ LoadDescriptionsFromFile(args.descriptions_file) = <<>>
     \/ args.found = <<>>)
    => (results = <<>> /\ idx = 0 /\ Copied = {} /\ pc # "saved")

\* C29 witness: main returned with one service available, the flag not set,
\* a catalog with entries and images matching the pattern
C29_Witness ==
    /\ pc = "exit"
    /\ services \in {"openai", "vision"}
    /\ ~args.allow_single_service
    /\ LoadDescriptionsFromFile(args.descriptions_file) # <<>>
    /\ args.found # <<>>

\* C30: with --sample N and 0 < N < number of found images, exactly N
\* distinct images are selected, in their original order, every step-th
\* image with step = floor(count / N); with N <= 0 or N >= count all found
\* images are selected.
C30_SampleSelection ==
    pc = "loop" =>
        LET count == Len(args.found)
            N == args.sample
            step == count \div N
        IN  IF 0 < N /\ N < count
            THEN /\ Len(image_paths) = N
                 /\ Distinct(image_paths)
                 /\ \A k \in 1..N : image_paths[k] = args.found[(k - 1) * step + 1]
            ELSE image_paths = args.found

\* C30 witness: a sample of several images with a step above one that the
\* cut to N shortens
C30_Witness ==
    /\ pc = "loop"
    /\ 0 < args.sample
    /\ args.sample < Len(args.found)
    /\ Len(args.found) \div args.sample > 1
    /\ args.sample > 1
    /\ (Len(args.found) - 1) \div (Len(args.found) \div args.sample) + 1 > args.sample

(***************************************************************************)
(* run_git_lfs_pull                                                        *)
(***************************************************************************)
\* Bytes a git process writes to stdout or stderr: "ok", nothing, and a lone
\* 0xE9 (a Latin-1 letter, as in a file name)
ProcessOutputs == { <<111, 107>>, <<>>, <<233>> }

\* What subprocess.run(..., check=True) comes to
ProcessOutcomes ==
    {[kind |-> k, output |-> b] : k \in {"completed", "CalledProcessError"},
                                     b \in ProcessOutputs}
    \cup {[kind |-> k, output |-> <<>>] : k \in {"FileNotFoundError", "PermissionError"}}

\* bytes.decode('utf-8') for byte strings without multi-byte sequences: the
\* code points, or None for UnicodeDecodeError (a byte above 0x7F)
Utf8Decode(bytes) ==
    IF \A i \in DOMAIN bytes : bytes[i] < 128 THEN Some(bytes) ELSE None

\* The except clauses of run_git_lfs_pull for what a command raised: the
\* tuple returned, or the exception that leaves the handler
LfsExcept(outcome) ==
    IF outcome.kind = "CalledProcessError"
    THEN IF Utf8Decode(outcome.output) = None
         THEN [pc |-> "raised", result |-> <<"UnicodeDecodeError">>]
         ELSE [pc |-> "returned",
               result |-> <<FALSE, "Git LFS command failed: ", Utf8Decode(outcome.output)[1]>>]
    ELSE IF outcome.kind = "FileNotFoundError"
    THEN [pc |-> "returned", result |-> <<FALSE, "Git LFS is not installed on your system">>]
    ELSE [pc |-> "returned",
          result |-> <<FALSE, "Unexpected error running Git LFS: ", outcome.kind>>]

LfsInit ==
    /\ pc = "start"
    /\ args \in [version : ProcessOutcomes, pull : ProcessOutcomes]
    /\ calls = <<>>
    /\ result = <<>>
    /\ services = "none"
    /\ descriptions = <<>>
    /\ analysis = None
    /\ best = <<>>
    /\ image_paths = <<>>
    /\ idx = 0
    /\ results = <<>>
    /\ failed = {}
    /\ from_openai = None
    /\ from_vision = None

\* subprocess.run(["git", "lfs", "--version"], check=True, ...)
RunLfsVersion ==
    /\ pc = "start"
    /\ calls' = Append(calls, <<"git", "lfs", "--version">>)
    /\ IF args.version.kind = "completed"
       THEN pc' = "version checked" /\ result' = result
       ELSE pc' = LfsExcept(args.version).pc /\ result' = LfsExcept(args.version).result
    /\ UNCHANGED <<services, descriptions, analysis, best, image_paths, idx, results, failed,
                 from_openai, from_vision, args>>

\* subprocess.run(["git", "lfs", "pull"], check=True, ...) and the return
RunLfsPull ==
    /\ pc = "version checked"
    /\ calls' = Append(calls, <<"git", "lfs", "pull">>)
    /\ IF args.pull.kind = "completed"
       THEN /\ pc' = "returned"
            /\ result' = IF Utf8Decode(args.pull.output) = None
                         THEN <<FALSE, "Unexpected error running Git LFS: ", "UnicodeDecodeError">>
                         ELSE <<TRUE, "Successfully pulled LFS files: ",
                                Utf8Decode(args.pull.output)[1]>>
       ELSE pc' = LfsExcept(args.pull).pc /\ result' = LfsExcept(args.pull).result
    /\ UNCHANGED <<services, descriptions, analysis, best, image_paths, idx, results, failed,
                 from_openai, from_vision, args>>

LfsNext == RunLfsVersion \/ RunLfsPull

SpecLfs == LfsInit /\ [][LfsNext]_vars

\* C28: run_git_lfs_pull never raises; it runs "git lfs --version" first and
\* "git lfs pull" only if the version check succeeded; it returns (True, ...)
\* only when both commands succeeded and (False, ...) when either command
\* fails, when git is not installed, or on any other exception.
C28_LfsPullNeverRaises ==
    /\ pc # "raised"
    /\ calls \in { <<>>, << <<"git", "lfs", "--version">> >>,
                   << <<"git", "lfs", "--version">>, <<"git", "lfs", "pull">> >> }
    /\ Len(calls) = 2 => args.version.kind = "completed"
    /\ pc = "returned"
       => /\ result[1] = TRUE
                => (args.version.kind = "completed" /\ args.pull.kind = "completed")
          /\ (args.version.kind # "completed" \/ args.pull.kind # "completed")
                => result[1] = FALSE

(***************************************************************************)
(* find_best_match: the signals parsed from the description                *)
(***************************************************************************)
MaxSignalParts == 3

\* Pieces of the descriptions the signals are parsed from
SignalParts ==
    { <<"t","e","x","t"," ","d","e","t","e","c","t","e","d",":">>,
      <<"C","o","n","f","i","d","e","n","c","e">>,
      <<" ","s","c","o","r","e",":">>,
      <<"U","N","M","A","T","C","H","E","D">>,
      <<" ">>,
      <<"\n">>,
      <<"a","b","c">>,
      <<"x","_","7">>,
      <<"5","0","0">>,
      <<"7">>,
      <<".">> }

SignalTexts == {Concat(f) : f \in SeqsUpTo(SignalParts, MaxSignalParts)}

SignalsInit ==
    /\ pc = "described"
    /\ services = "openai"
    /\ descriptions = <<>>
    /\ analysis \in {OpenAIAnalysis(t) : t \in SignalTexts}
    /\ best = [match |-> None, score |-> FZero]
    /\ result = NoResult
    /\ image_paths = <<>>
    /\ idx = 0
    /\ results = <<>>
    /\ failed = {}
    /\ from_openai = None
    /\ from_vision = None
    /\ calls = <<>>
    /\ args = None

\* The first lines of find_best_match: detected_text, confidence_score and the
\* label of unmatched_match (unmatched_desc), None when there is no match
ParseSignals ==
    /\ pc = "described"
    /\ LET text == Lower(analysis.description)
           unmatched_match == UnmatchedMatch(text)
       IN  result' = [detected_text |-> DetectedText(text),
                      confidence_score |-> ConfidenceScore(text),
                      unmatched_desc |->
                          IF unmatched_match = None THEN None
                          ELSE Some(Upper(Strip(unmatched_match[1])))]
    /\ pc' = "parsed"
    /\ UNCHANGED <<services, descriptions, analysis, best, image_paths, idx, results, failed, others>>

SignalsNext == ParseSignals

SpecSignals == SignalsInit /\ [][SignalsNext]_vars

(***************************************************************************)
(* Properties of the parsed signals                                        *)
(***************************************************************************)
Parsed == pc = "parsed"
SignalText == Lower(analysis.description)

\* C18: detected_text is the rest of the line on which the first
\* "text detected:" marker occurs, trimmed and lowercased; when that rest is
\* empty the detected text is empty and the following line is never taken.
C18_DetectedTextSameLine ==
    Parsed
    => LET occ == Occurrences(SignalText, TextDetectedMarker)
       IN  IF occ = {} THEN result.detected_text = <<>>
           ELSE LET p == Least(occ) + Len(TextDetectedMarker)
                IN  result.detected_text =
                        Lower(Strip(SubSeq(SignalText, p, LineEnd(SignalText, p) - 1)))

\* C19: the reported confidence lies in [0,10]: a parsed value above 10 is
\* divided by 10 once, and an unparsable or missing number gives the absent
\* signal (0).
C19_ReportedInScale ==
    Parsed
    => LET m == ConfidenceMatch(SignalText)
       IN  /\ InScale(result.confidence_score)
           /\ (m = None \/ ParseFloat(m[1]) = None) => result.confidence_score = FZero
           /\ (m # None /\ ParseFloat(m[1]) # None /\ FLt(Frac(10, 1), ParseFloat(m[1])[1]))
                  => FEq(result.confidence_score, FDiv10(ParseFloat(m[1])[1]))

\* C20: the explicit unmatched label is a run of letters and whitespace (no
\* digits, underscores or other characters) and is absent when the text has
\* no "unmatched" marker.
C20_LabelLettersOnly ==
    Parsed
    => /\ result.unmatched_desc # None
              => \A i \in DOMAIN result.unmatched_desc[1] :
                     IsAlphaChar(result.unmatched_desc[1][i]) \/ IsSpace(result.unmatched_desc[1][i])
       /\ Occurrences(SignalText, UnmatchedWord) = {} => result.unmatched_desc = None

(***************************************************************************)
(* Properties of _create_match_filename                                    *)
(***************************************************************************)
Named == pc = "named"
HasMatch == analysis.match # None /\ analysis.match[1] # <<>>
IsUnmatchedMatch == HasMatch /\ StartsWith(analysis.match[1], UnmatchedPrefix)
Extension == SplitExt(analysis.file_name[1])
ConfSuffix == ConfTag \o IntToStr(ConfPct(analysis.confidence)) \o Extension

\* C13: for a match that does not start with "UNMATCHED", the filename is the
\* match with every whitespace run collapsed to one underscore and then every
\* remaining character outside [A-Za-z0-9_-] replaced by an underscore,
\* followed by "_conf", conf_pct and the extension.
C13_MatchedFilename ==
    (Named /\ HasMatch /\ ~IsUnmatchedMatch)
    => analysis.match_filename =
           SanitizeFilename(SpacesToUnderscore(analysis.match[1], 1)) \o ConfSuffix

\* The text up to the first "CONFIDENCE SCORE" fragment (case-insensitive)
CutAtConfidenceScore(s) ==
    LET hits == {i \in DOMAIN s : ConfidenceScoreEnd(s, i) # 0}
    IN  IF hits = {} THEN s ELSE SubSeq(s, 1, Least(hits) - 1)

\* C14: for a match that starts with "UNMATCHED", the filename is "UNMATCHED_",
\* the label, "_conf", conf_pct and the extension; the label is the text after
\* the prefix, trimmed, cut at the first "CONFIDENCE SCORE" fragment through
\* the end of the string (later lines included), whitespace runs collapsed to
\* underscores, sanitized.
C14_UnmatchedFilename ==
    (Named /\ IsUnmatchedMatch)
    => LET rest == Strip(SubSeq(analysis.match[1], Len(UnmatchedPrefix) + 1,
                                Len(analysis.match[1])))
           label == SanitizeFilename(
                        SpacesToUnderscore(Strip(CutAtConfidenceScore(rest)), 1))
       IN  analysis.match_filename = UnmatchedPrefix \o <<"_">> \o label \o ConfSuffix

\* The part of match_filename before the extension
Stem == SubSeq(analysis.match_filename, 1, Len(analysis.match_filename) - Len(Extension))

\* C15: for every match string and confidence, the part of match_filename
\* before the extension has only characters of [A-Za-z0-9_-].
C15_FilenameCharset ==
    (Named /\ HasMatch)
    => /\ analysis.match_filename =
              Stem \o Extension
       /\ \A i \in DOMAIN Stem : Stem[i] \in AsciiWordSet \cup {"-"}

\* C15 witness: a named match with a letter outside ASCII and a line break
C15_Witness ==
    /\ Named
    /\ HasMatch
    /\ \E i \in DOMAIN analysis.match[1] : analysis.match[1][i] \in WordSet \ AsciiWordSet
    /\ \E i \in DOMAIN analysis.match[1] : analysis.match[1][i] = "\n"

\* The digits after the last "_conf" of match_filename, up to the extension
EmbeddedConf ==
    LET at == Greatest(Occurrences(Stem, ConfTag))
    IN  SubSeq(Stem, at + Len(ConfTag), Len(Stem))

\* C16: the number embedded as "_conf<N>" equals floor(confidence * 100), on
\* the matched and on the UNMATCHED path.
C16_ConfIsFloor ==
    (Named /\ HasMatch)
    => EmbeddedConf = IntToStr((analysis.confidence[1] * 100) \div analysis.confidence[2])

\* C17: match_filename depends only on match, confidence and the extension of
\* the original file name: any other file name with the same extension gives
\* the same filename; when match is absent the original file name is returned
\* unchanged.
C17_DependsOnlyOnTriple ==
    Named
    => IF HasMatch
       THEN \A n \in FileNames :
               SplitExt(n) = Extension
               => CreateMatchFilename(Some(n), analysis.match, analysis.confidence)
                      = analysis.match_filename
       ELSE analysis.match_filename = analysis.file_name[1]

\* C17 witness: a match is present and another file name has the same
\* extension and a different stem
C17_Witness ==
    /\ Named
    /\ HasMatch
    /\ \E n \in FileNames : n # analysis.file_name[1] /\ SplitExt(n) = Extension

(***************************************************************************)
(* Properties of combine_analysis_results                                  *)
(***************************************************************************)
Fused == pc \in {"analyzed", "matched"}
PrimaryText == from_openai.description
ConfidentTexts == SelectSeq(from_vision.text, LAMBDA item : FLt(Frac(5, 10), item.confidence))
SecondaryLine ==
    DetectedHeader \o JoinWith([k \in 1..Len(ConfidentTexts) |-> ConfidentTexts[k].text],
                               TextSeparator) \o <<"\n">>
IsPrepended == StartsWith(analysis.description, SecondaryLine \o PrimaryText)
HasMarkerAnyCase == Contains(Lower(PrimaryText), TextDetectedMarker)

\* C21: the "TEXT DETECTED: ..." line of the secondary texts with confidence
\* above 0.5 is prepended exactly when there is such a text and the primary
\* text has no "text detected:" marker in any letter case; when the primary
\* text has the marker nothing is prepended and extraction reads the primary
\* source's detected text.
C21_PrependIffNoMarker ==
    Fused
    => /\ IsPrepended <=> (ConfidentTexts # <<>> /\ ~HasMarkerAnyCase)
       /\ ~IsPrepended => StartsWith(analysis.description, PrimaryText)
       /\ HasMarkerAnyCase
              => DetectedText(Lower(analysis.description)) = DetectedText(Lower(PrimaryText))

\* The tags the aggregated note lists (none when there is no such note)
NotedTags ==
    LET notes == analysis.synergy_notes[1]
        lists == {k \in DOMAIN notes : notes[k] # NoteText}
    IN  IF lists = {} THEN <<>> ELSE notes[Least(lists)]

TagLines(tags) == Concat([k \in 1..Len(tags) |-> TagLinePrefix \o tags[k]])
Qualifies(tag) == FLt(Frac(7, 10), tag.confidence) /\ tag.name \in FoodVocabulary
QualifiedBefore(name, k) ==
    \E j \in 1..(k - 1) : from_vision.tags[j].name = name /\ Qualifies(from_vision.tags[j])

\* The text as augmented when the loop reaches the k-th secondary tag
AugmentedSoFar(pre, k) ==
    pre \o TagLines(SelectSeq(NotedTags, LAMBDA name : QualifiedBefore(name, k)))

\* C22: a tag line is appended for a secondary tag exactly when its confidence
\* is above 0.7, its name is in the food vocabulary and its name is not yet a
\* case-insensitive substring of the text as augmented so far; no tag is
\* appended twice; the one aggregated note lists exactly the appended tags and
\* there is no tag note when none was appended.
C22_TagAppendedIff ==
    Fused
    => \E pre \in {PrimaryText, SecondaryLine \o PrimaryText} :
          /\ analysis.description = pre \o TagLines(NotedTags)
          /\ \A i, j \in DOMAIN NotedTags : NotedTags[i] = NotedTags[j] => i = j
          /\ \A n \in DOMAIN NotedTags :
                 \E k \in DOMAIN from_vision.tags : from_vision.tags[k].name = NotedTags[n]
          /\ \A k \in DOMAIN from_vision.tags :
                 LET tag == from_vision.tags[k]
                     appended_here ==
                         /\ \E n \in DOMAIN NotedTags : NotedTags[n] = tag.name
                         /\ ~QualifiedBefore(tag.name, k)
                 IN  appended_here
                         <=> /\ Qualifies(tag)
                             /\ ~Contains(Lower(AugmentedSoFar(pre, k)), Lower(tag.name))
          /\ Cardinality({k \in DOMAIN analysis.synergy_notes[1] :
                              analysis.synergy_notes[1][k] # NoteText})
                 = IF NotedTags = <<>> THEN 0 ELSE 1

\* C22 witness: a line was appended for one tag, and another tag above the
\* threshold and in the vocabulary got none because the text already held it
C22_Witness ==
    /\ Fused
    /\ NotedTags # <<>>
    /\ \E k \in DOMAIN from_vision.tags :
          /\ Qualifies(from_vision.tags[k])
          /\ \A n \in DOMAIN NotedTags : NotedTags[n] # from_vision.tags[k].name

\* C25: a record produced through combine_analysis_results has
\* confidence_boost and synergy_boost 0 and analysis_methods with exactly the
\* two entries (primary, secondary), so its confidence is original_confidence
\* capped at 1.0, or at 0.9 when explicitly unmatched.
C25_NoBoostTwoMethods ==
    Fused
    => /\ analysis.confidence_boost = Some(FZero)
       /\ analysis.analysis_methods # None
       /\ Len(analysis.analysis_methods[1]) = 2
       /\ analysis.analysis_methods[1] = <<"openai", "azure_vision">>
       /\ pc = "matched"
              => /\ FEq(result.synergy_boost, FZero)
                 /\ FEq(result.confidence,
                        FMin(result.original_confidence,
                             IF result.is_explicit_unmatched = Some(TRUE)
                             THEN UnmatchedCap ELSE FOne))

\* C25 witness: a fused record whose text was augmented, matched with a
\* reported confidence, and one explicitly unmatched
C25_Witness ==
    /\ pc = "matched"
    /\ analysis.synergy_notes[1] # <<>>
    /\ result.is_explicit_unmatched = Some(TRUE)
    /\ FEq(result.confidence, Frac(7, 10))

(***************************************************************************)
(* find_best_match: malformed and absent signals                           *)
(***************************************************************************)
\* float() raises ValueError on the number the confidence pattern captured
MalformedNumber ==
    LET m == ConfidenceMatch(TextOf(analysis))
    IN  m # None /\ ParseFloat(m[1]) = None

IsNumber(f) == f \in Nat \X (Nat \ {0})

\* C23: find_best_match returns a record with match, score and confidence for
\* every description and catalog; a malformed number is treated like an
\* absent one, and without an "unmatched" marker or a "text detected:" marker
\* the record is the one of the absent signal.
C23_MalformedIsAbsent ==
    Matched
    => /\ {"match", "score", "confidence"} \subseteq DOMAIN result
       /\ IsNumber(result.score) /\ IsNumber(result.confidence)
       /\ (MalformedNumber \/ ConfidenceMatch(TextOf(analysis)) = None)
              => FEq(result.original_confidence,
                     IF result.is_explicit_unmatched = Some(TRUE)
                     THEN FMax(LowScore, result.score) ELSE result.score)
       /\ Occurrences(TextOf(analysis), UnmatchedWord) = {}
              => result.is_explicit_unmatched = None
       /\ (Occurrences(TextOf(analysis), TextDetectedMarker) = {} /\ result.score # FZero)
              => \E i \in DOMAIN descriptions : FEq(result.score, Scores[i])

\* C23 witness: the number after "confidence score:" does not parse, and an
\* entry of the catalog still scores
C23_Witness ==
    /\ Matched
    /\ MalformedNumber
    /\ FLt(FZero, result.score)

(***************************************************************************)
(* The batch loop: what a record depends on                                *)
(***************************************************************************)
\* The analysis find_best_match is given for a text
TextAnalysis(text) ==
    [description |-> text, confidence_boost |-> None,
     synergy_notes |-> None, analysis_methods |-> None]

\* C24: processing an image leaves the catalog unchanged, and the record of an
\* image is a function of its analysis text, the catalog and its file name:
\* every record, early or late in the run, is the one the catalog as it is now
\* gives for its text, and two records of one text agree whatever their
\* positions are.
C24_RecordDependsOnOwnInputs ==
    /\ \A i \in DOMAIN results :
          IsMatchRecord(results[i])
          => results[i] = AnalyzeImage(TextAnalysis(results[i].description),
                                       results[i].file_name, descriptions)
    /\ \A i, j \in DOMAIN results :
          (IsMatchRecord(results[i]) /\ IsMatchRecord(results[j])
              /\ results[i].description = results[j].description)
          => /\ [results[i] EXCEPT !.file_name = <<>>, !.match_filename = <<>>]
                    = [results[j] EXCEPT !.file_name = <<>>, !.match_filename = <<>>]
             /\ SplitExt(results[i].file_name) = SplitExt(results[j].file_name)
                    => results[i].match_filename = results[j].match_filename

\* C24 witness: the same text analyzed for two images of one run, first and
\* second, after the loop
C24_Witness ==
    /\ pc = "saved"
    /\ Len(results) = 2
    /\ IsMatchRecord(results[1]) /\ IsMatchRecord(results[2])
    /\ results[1].description = results[2].description
    /\ results[1].file_name # results[2].file_name

====
